---- MODULE Spec2Model ----
(***************************************************************************)
(* TraceWave: the per-video annotation store (src/models.py), its record   *)
(* codec and annotations file, and the main window's project session       *)
(* (src/ui/main_window.py).                                                *)
(*                                                                         *)
(* Conventions.  Python's None is the empty sequence <<>> for the optional *)
(* box, polygon and get_object result, and the reserved string NoneStr for *)
(* the optional class name.  A dict is a function; a missing key is a key  *)
(* outside its DOMAIN.  A FrameAnno is its objects dict.                   *)
(***************************************************************************)
EXTENDS Integers, Sequences, FiniteSets, TLC

VARIABLES
    project,            \* MainWindow.project (the Project held in memory)
    models,             \* MainWindow.models: video id -> AnnotationModel
    current_video_id,   \* MainWindow.current_video_id
    obj_spin,           \* MainWindow.obj_spin value (the active object id)
    disk,               \* per project directory: project.json and annotations.json
    model_keys,         \* the keys of MainWindow.models in insertion order
    running,            \* the application runs: its window is open and no slot has raised
    call,               \* the last call made and what it returned
    saved,              \* per store: its annotations at the last save or load
    nops,               \* number of calls made so far
    sam2,               \* MainWindow.sam2: NoneStr, or whether the service is available
    imports,            \* the import threads started and not yet finished, oldest first
    act_import_videos,  \* whether the Import Videos action is enabled
    autosave_timer,     \* whether the single-shot autosave timer is running
    thread,             \* a VideoImportThread inside run(): its batch, position and signals
    listing             \* the files of a frames folder, in the order iterdir gives them

vars == <<project, models, model_keys, current_video_id, obj_spin, disk, running, call, saved,
          nops, sam2, imports, act_import_videos,
          autosave_timer, thread, listing>>

----------------------------------------------------------------------------
(* Bounds of the model *)

MaxOps == 4
MaxObj == 2
NFrames == 2

(* Inputs *)
None == <<>>
NoneStr == "<None>"
ObjIds == 1..MaxObj
Xs == {10, 30}
Ys == {20}
Labels == {0, 1}
Boxes == {<<0, 0, 5, 5>>, <<0, 0, 0, 0>>, <<1, 1, 4, 0>>}
Polygons == {None, <<<<0, 0>>, <<4, 0>>>>, <<<<0, 0>>, <<4, 0>>, <<4, 4>>>>}
ClassNames == {NoneStr, "", "object"}
Indices == -1..NFrames

EmptyDict == [k \in {} |-> 0]
Get(rec, k, default) == IF k \in DOMAIN rec THEN rec[k] ELSE default
Opt(k, present, v) == IF present THEN (k :> v) ELSE EmptyDict
Min(a, b) == IF a < b THEN a ELSE b
Max(a, b) == IF a > b THEN a ELSE b

RECURSIVE sorted(_)
sorted(S) ==
    IF S = {} THEN <<>>
    ELSE LET lo == CHOOSE a \in S : \A b \in S : a <= b
         IN  <<lo>> \o sorted(S \ {lo})

RemoveAt(s, i) == SubSeq(s, 1, i - 1) \o SubSeq(s, i + 1, Len(s))

----------------------------------------------------------------------------
(* ObjectAnno, FrameAnno *)

ObjectAnno ==
    [box |-> None, points |-> <<>>, labels |-> <<>>, polygon |-> None,
     class_name |-> NoneStr]

FrameAnno == EmptyDict

ObjectAnno_add_point(o, x, y, label) ==
    [o EXCEPT !.points = Append(@, <<x, y>>), !.labels = Append(@, label)]

\* index of the first (point, label) pair of zip(points, labels) equal to
\* ((x, y), label), from position i on; 0 when the loop ends without a match
RECURSIVE FirstMatch(_, _, _, _, _)
FirstMatch(o, x, y, label, i) ==
    IF i > Min(Len(o.points), Len(o.labels)) THEN 0
    ELSE IF o.points[i][1] = x /\ o.points[i][2] = y /\ o.labels[i] = label THEN i
    ELSE FirstMatch(o, x, y, label, i + 1)

\* the index of the last match instead of the first
RECURSIVE LastMatch(_, _, _, _, _)
LastMatch(o, x, y, label, i) ==
    IF i < 1 THEN 0
    ELSE IF o.points[i][1] = x /\ o.points[i][2] = y /\ o.labels[i] = label THEN i
    ELSE LastMatch(o, x, y, label, i - 1)

ObjectAnno_remove_point_last(o, x, y, label) ==
    LET i == LastMatch(o, x, y, label, Min(Len(o.points), Len(o.labels)))
    IN  IF i = 0 THEN [obj |-> o, ret |-> FALSE]
        ELSE [obj |-> [o EXCEPT !.points = RemoveAt(@, i), !.labels = RemoveAt(@, i)],
              ret |-> TRUE]

ObjectAnno_remove_point(o, x, y, label) ==
    LET i == FirstMatch(o, x, y, label, 1)
    IN  IF i = 0 THEN [obj |-> o, ret |-> FALSE]
        ELSE [obj |-> [o EXCEPT !.points = RemoveAt(@, i), !.labels = RemoveAt(@, i)],
              ret |-> TRUE]

ObjectAnno_set_box(o, x, y, w, h) == [o EXCEPT !.box = <<x, y, w, h>>]

\* a clearing that resets the whole object
ObjectAnno_set_polygon_reset(o, polygon) ==
    IF Len(polygon) > 0
    THEN [o EXCEPT !.polygon = [i \in 1..Len(polygon) |-> <<polygon[i][1], polygon[i][2]>>]]
    ELSE ObjectAnno

ObjectAnno_set_polygon(o, polygon) ==
    IF Len(polygon) > 0
    THEN [o EXCEPT !.polygon = [i \in 1..Len(polygon) |-> <<polygon[i][1], polygon[i][2]>>]]
    ELSE [o EXCEPT !.polygon = None]

ObjectAnno_set_class(o, name) == [o EXCEPT !.class_name = name]

\* FrameAnno.ensure_object, on the objects dict fr
ensure_object(fr, obj_id) ==
    IF obj_id \in DOMAIN fr THEN fr ELSE (obj_id :> ObjectAnno) @@ fr

----------------------------------------------------------------------------
(* AnnotationModel *)

AnnotationModel(frames) ==
    [frames |-> frames, index |-> 0, ann |-> EmptyDict, dirty |-> FALSE]

\* a clamp that only looks at the upper end
clamp_index_upper(m, i) ==
    IF Len(m.frames) > 0 THEN Min(i, Len(m.frames) - 1) ELSE 0

clamp_index(m, i) ==
    IF Len(m.frames) > 0 THEN Max(0, Min(i, Len(m.frames) - 1)) ELSE 0

\* a set_index that marks the store as changed
set_index_dirty(m, i) == [m EXCEPT !.index = clamp_index(m, i), !.dirty = TRUE]
set_index(m, i) == [m EXCEPT !.index = clamp_index(m, i)]

\* AnnotationModel._frame: the store with an entry for frame idx
_frame(m, idx) ==
    IF idx \in DOMAIN m.ann THEN m
    ELSE [m EXCEPT !.ann = (idx :> FrameAnno) @@ @]

\* self._frame(idx).ensure_object(obj_id): the store with both entries made
FrameObject(m, idx, obj_id) ==
    LET m1 == _frame(m, idx)
    IN  [m1 EXCEPT !.ann[idx] = ensure_object(@, obj_id)]

add_point(m, obj_id, x, y, label) ==
    LET m1 == FrameObject(m, m.index, obj_id)
    IN  [m1 EXCEPT !.ann[m.index][obj_id] = ObjectAnno_add_point(@, x, y, label),
                   !.dirty = TRUE]

remove_point(m, obj_id, x, y, label) ==
    LET m1 == FrameObject(m, m.index, obj_id)
        r  == ObjectAnno_remove_point(m1.ann[m.index][obj_id], x, y, label)
    IN  [m |-> [m1 EXCEPT !.ann[m.index][obj_id] = r.obj,
                          !.dirty = IF r.ret THEN TRUE ELSE @],
         ret |-> r.ret]

set_box(m, obj_id, x, y, w, h) ==
    LET m1 == FrameObject(m, m.index, obj_id)
    IN  [m1 EXCEPT !.ann[m.index][obj_id] = ObjectAnno_set_box(@, x, y, w, h),
                   !.dirty = TRUE]

\* a set_polygon that starts the object afresh
set_polygon_afresh(m, obj_id, polygon) ==
    LET m1 == FrameObject(m, m.index, obj_id)
    IN  [m1 EXCEPT !.ann[m.index][obj_id] = ObjectAnno_set_polygon(ObjectAnno, polygon),
                   !.dirty = TRUE]
set_polygon(m, obj_id, polygon) ==
    LET m1 == FrameObject(m, m.index, obj_id)
    IN  [m1 EXCEPT !.ann[m.index][obj_id] = ObjectAnno_set_polygon(@, polygon),
                   !.dirty = TRUE]

set_class(m, obj_id, class_name) ==
    LET m1 == FrameObject(m, m.index, obj_id)
    IN  [m1 EXCEPT !.ann[m.index][obj_id] = ObjectAnno_set_class(@, class_name),
                   !.dirty = TRUE]

clear_object(m, obj_id) ==
    IF m.index \notin DOMAIN m.ann THEN m
    ELSE IF obj_id \in DOMAIN m.ann[m.index]
         THEN [m EXCEPT !.ann[m.index][obj_id] = ObjectAnno, !.dirty = TRUE]
         ELSE m

get_object(m, fidx, obj_id) ==
    IF fidx \notin DOMAIN m.ann THEN None
    ELSE IF obj_id \notin DOMAIN m.ann[fidx] THEN None
    ELSE <<m.ann[fidx][obj_id]>>

\* a box test that forgets the height
has_box_width_only(o) == Len(o.box) = 4 /\ o.box[3] > 0
has_box(o) == Len(o.box) = 4 /\ o.box[3] > 0 /\ o.box[4] > 0
\* a points test that wants two points
has_points_two(o) == Len(o.points) >= 2
has_points(o) == Len(o.points) > 0
\* a polygon test that takes any non-empty polygon
has_poly_nonempty(o) == Len(o.polygon) >= 1
has_poly(o) == Len(o.polygon) >= 3

is_frame_annotated(m, fidx) ==
    IF fidx \notin DOMAIN m.ann THEN FALSE
    ELSE \E oid \in DOMAIN m.ann[fidx] :
            LET obj == m.ann[fidx][oid]
            IN  has_box(obj) \/ has_points(obj) \/ has_poly(obj)

----------------------------------------------------------------------------
(* persistence: records *)

\* a record that carries the box whenever one is set
Record_any_box(video_id, fidx, oid, o) ==
    [video_id |-> video_id, frame_idx |-> fidx, obj_id |-> oid,
     points |-> [i \in 1..Len(o.points) |-> <<o.points[i][1], o.points[i][2]>>],
     labels |-> o.labels]
    @@ Opt("class", o.class_name # NoneStr /\ o.class_name # "", o.class_name)
    @@ Opt("box", Len(o.box) = 4, o.box)
    @@ Opt("polygon", has_poly(o),
           [i \in 1..Len(o.polygon) |-> <<o.polygon[i][1], o.polygon[i][2]>>])

\* the record to_records builds for object o of frame fidx
Record(video_id, fidx, oid, o) ==
    [video_id |-> video_id, frame_idx |-> fidx, obj_id |-> oid,
     points |-> [i \in 1..Len(o.points) |-> <<o.points[i][1], o.points[i][2]>>],
     labels |-> o.labels]
    @@ Opt("class", o.class_name # NoneStr /\ o.class_name # "", o.class_name)
    @@ Opt("box", has_box(o), o.box)
    @@ Opt("polygon", has_poly(o),
           [i \in 1..Len(o.polygon) |-> <<o.polygon[i][1], o.polygon[i][2]>>])

\* the inner loop of to_records: the objects oids (ascending) of frame fidx
RECURSIVE FrameRecords(_, _, _, _)
FrameRecords(m, video_id, fidx, oids) ==
    IF oids = <<>> THEN <<>>
    ELSE LET o == m.ann[fidx][Head(oids)]
         IN  (IF ~(has_box(o) \/ has_points(o) \/ has_poly(o)) THEN <<>>
              ELSE <<Record(video_id, fidx, Head(oids), o)>>)
             \o FrameRecords(m, video_id, fidx, Tail(oids))

\* the outer loop of to_records: the frames fidxs (ascending)
RECURSIVE StoreRecords(_, _, _)
StoreRecords(m, video_id, fidxs) ==
    IF fidxs = <<>> THEN <<>>
    ELSE FrameRecords(m, video_id, Head(fidxs), sorted(DOMAIN m.ann[Head(fidxs)]))
         \o StoreRecords(m, video_id, Tail(fidxs))

\* a to_records that writes a store only while it is dirty
to_records_if_dirty(m, video_id) ==
    IF m.dirty THEN StoreRecords(m, video_id, sorted(DOMAIN m.ann)) ELSE <<>>

to_records(m, video_id) == StoreRecords(m, video_id, sorted(DOMAIN m.ann))

\* A record whose field k does not parse (int() or the unpacking of a pair
\* raises on its value) carries k under the key "unparsable"; the value itself
\* is not represented.
Unparsable(rec, k) == Get(rec, "unparsable", "") = k

\* the body of load_records' loop, for one record: the statements up to the
\* first one that raises take effect, the except clause drops the rest
load_record(m, rec) ==
    LET fidx == Get(rec, "frame_idx", 0)
        oid  == Get(rec, "obj_id", 1)
        m1   == FrameObject(m, fidx, oid)
        pts  == Get(rec, "points", <<>>)
        labs == Get(rec, "labels", <<>>)
        box  == Get(rec, "box", None)
        poly == Get(rec, "polygon", None)
        o0   == m1.ann[fidx][oid]
        o1   == [o0 EXCEPT !.points = [i \in 1..Len(pts) |-> <<pts[i][1], pts[i][2]>>]]
        o2   == [o1 EXCEPT !.labels = labs]
        o3   == IF Len(box) = 4 THEN [o2 EXCEPT !.box = box] ELSE o2
        o4   == IF Len(poly) >= 3
                THEN [o3 EXCEPT !.polygon = [i \in 1..Len(poly) |-> <<poly[i][1], poly[i][2]>>]]
                ELSE o3
        o5   == [o4 EXCEPT !.class_name = Get(rec, "class", NoneStr)]
    IN  IF Unparsable(rec, "frame_idx") \/ Unparsable(rec, "obj_id") THEN m
        ELSE [m1 EXCEPT !.ann[fidx][oid] =
                CASE Unparsable(rec, "points") -> o0
                  [] Unparsable(rec, "labels") -> o1
                  [] Unparsable(rec, "box") -> o2
                  [] Unparsable(rec, "polygon") -> o3
                  [] OTHER -> o5]

RECURSIVE load_records(_, _)
load_records(m, records) ==
    IF records = <<>> THEN m
    ELSE load_records(load_record(m, Head(records)), Tail(records))

----------------------------------------------------------------------------
(* persistence: the annotations file *)

\* an annotations.json: missing, holding a record list, or cut short by a failed write
File(records) == [state |-> "valid", records |-> records]
CorruptFile == [state |-> "corrupt", records |-> <<>>]
MissingFile == [state |-> "missing", records |-> <<>>]

\* a grouping that hands every record to every video
load_annotations_unrouted(file) ==
    IF file.state = "missing" THEN EmptyDict
    ELSE LET recs == file.records
             vids == {Get(recs[i], "video_id", "") : i \in 1..Len(recs)} \ {""}
         IN  [vid \in vids |-> recs]

\* load_annotations on a file that parses: the records grouped by video id,
\* records without one left out
load_annotations(file) ==
    IF file.state = "missing" THEN EmptyDict
    ELSE LET recs == file.records
             vids == {Get(recs[i], "video_id", "") : i \in 1..Len(recs)} \ {""}
         IN  [vid \in vids |-> SelectSeq(recs, LAMBDA r : Get(r, "video_id", "") = vid)]

\* all_records of save_annotations, over the stores in dict order
RECURSIVE all_records(_, _)
all_records(ms, keys) ==
    IF keys = <<>> THEN <<>>
    ELSE to_records(ms[Head(keys)], Head(keys)) \o all_records(ms, Tail(keys))

\* what a call of save_annotations may meet
SaveOutcomes == {"ok", "open_raises", "dump_raises"}

\* save_annotations: the stores and the file it leaves, and whether it raised
save_annotations(file, ms, keys, outcome) ==
    [models |-> [vid \in DOMAIN ms |-> [ms[vid] EXCEPT !.dirty = FALSE]],
     file   |-> CASE outcome = "ok" -> File(all_records(ms, keys))
                  [] outcome = "open_raises" -> file
                  [] outcome = "dump_raises" -> CorruptFile,
     raised |-> outcome # "ok"]

----------------------------------------------------------------------------
(* The store as a library: one AnnotationModel, called directly *)

Projects == {"p1", "p2"}
UIState == [last_video_id |-> NoneStr, last_frame_index |-> 0, last_obj_id |-> 1]
NoProject ==
    [open |-> FALSE, name |-> "", videos |-> <<>>, ui_state |-> UIState, classes |-> <<>>]
\* Project(root, name) with its list of video ids, its ui_state and its classes
Project(p, videos, ui_state, classes) ==
    [open |-> TRUE, name |-> p, videos |-> videos, ui_state |-> ui_state,
     classes |-> classes]

ClassLabel(name, color) == [name |-> name, color |-> color]
ClassLabel_from_dict(data) ==
    ClassLabel(Get(data, "name", "class"), Get(data, "color", "#00FF00"))

\* a set_default_classes that repairs nothing
set_default_classes_skip(proj) == proj

\* Project.set_default_classes
set_default_classes(proj) ==
    IF Len(proj.classes) = 0
    THEN [proj EXCEPT !.classes = <<ClassLabel("default", "#00FF00"),
                                    ClassLabel("object", "#FFD700")>>]
    ELSE proj

\* Project.from_dict on the descriptor d of directory p
Project_from_dict(p, d) ==
    LET classes == Get(d, "classes", <<>>)
    IN  Project(p, d.videos, d.ui_state,
                [i \in 1..Len(classes) |-> ClassLabel_from_dict(classes[i])])

\* Project.to_dict written to project.json, beside the annotations file
Descriptor(proj, annotations) ==
    [exists |-> TRUE, videos |-> proj.videos, ui_state |-> proj.ui_state,
     classes |-> proj.classes, annotations |-> annotations]

\* a project directory: whether project.json exists, what it holds, and annotations.json
EmptyDir == [exists |-> FALSE, videos |-> <<>>, ui_state |-> UIState,
             annotations |-> MissingFile]

\* the frame files of a video's frames directory, in AnnotationModel's order;
\* the frames folder of v2 is missing or holds no image
FramesOf(vid) == [i \in 1..(IF vid = "v2" THEN 0 ELSE NFrames) |-> i - 1]

\* no import thread is inside run()
NoThread ==
    [pc |-> "idle", mkdir |-> "ok", videos |-> <<>>, idx |-> 0, results |-> <<>>,
     signals |-> <<>>]

\* no call yet.  before: what get_object gave for the call's object before the call
NoCall == [op |-> "", vid |-> "", oid |-> 0, nums |-> <<>>, poly |-> <<>>,
           name |-> "", ret |-> FALSE, before |-> <<>>]

\* the object a call on store vid addresses: object oid of the cursor frame
Target(vid, oid) == get_object(models[vid], models[vid].index, oid)

CallRecord(op, vid, oid, nums, poly, name, ret) ==
    [op |-> op, vid |-> vid, oid |-> oid, nums |-> nums, poly |-> poly,
     name |-> name, ret |-> ret,
     before |-> IF vid \in DOMAIN models /\ oid # 0 THEN Target(vid, oid) ELSE <<>>]

\* a call of the operator or of the library's user: at most MaxOps of them
Called(op, vid, oid, nums, poly, name, ret) ==
    /\ nops < MaxOps
    /\ nops' = nops + 1
    /\ call' = CallRecord(op, vid, oid, nums, poly, name, ret)

\* a call the program makes by itself (a timer's timeout): not counted
Fired(op, vid, oid, nums, poly, name, ret) ==
    /\ call' = CallRecord(op, vid, oid, nums, poly, name, ret)
    /\ UNCHANGED nops

SV == "v1"
StorePath == "p1"

InitStore ==
    /\ project = NoProject
    /\ models = (SV :> AnnotationModel(FramesOf(SV)))
    /\ model_keys = <<SV>>
    /\ current_video_id = NoneStr
    /\ obj_spin = 1
    /\ disk = [p \in Projects |-> [EmptyDir EXCEPT !.annotations = File(<<>>)]]
    /\ running = TRUE
    /\ call = NoCall
    /\ saved = (SV :> EmptyDict)
    /\ nops = 0
    /\ sam2 = NoneStr
    /\ imports = <<>>
    /\ act_import_videos = FALSE
    /\ autosave_timer = FALSE
    /\ thread = NoThread
    /\ listing = <<>>

StoreFrame ==
    UNCHANGED <<project, model_keys, current_video_id, obj_spin, running, sam2, imports,
                act_import_videos, autosave_timer, thread, listing>>

Store_add_point ==
    \E oid \in ObjIds, x \in Xs, y \in Ys, label \in Labels :
        /\ models' = [models EXCEPT ![SV] = add_point(@, oid, x, y, label)]
        /\ Called("add_point", SV, oid, <<x, y, label>>, <<>>, "", FALSE)
        /\ StoreFrame /\ UNCHANGED <<disk, saved>>

Store_remove_point ==
    \E oid \in ObjIds, x \in Xs, y \in Ys, label \in Labels :
        LET r == remove_point(models[SV], oid, x, y, label)
        IN  /\ models' = [models EXCEPT ![SV] = r.m]
            /\ Called("remove_point", SV, oid, <<x, y, label>>, <<>>, "", r.ret)
            /\ StoreFrame /\ UNCHANGED <<disk, saved>>

Store_set_box ==
    \E oid \in ObjIds, b \in Boxes :
        /\ models' = [models EXCEPT ![SV] = set_box(@, oid, b[1], b[2], b[3], b[4])]
        /\ Called("set_box", SV, oid, b, <<>>, "", FALSE)
        /\ StoreFrame /\ UNCHANGED <<disk, saved>>

Store_set_polygon ==
    \E oid \in ObjIds, polygon \in Polygons :
        /\ models' = [models EXCEPT ![SV] = set_polygon(@, oid, polygon)]
        /\ Called("set_polygon", SV, oid, <<>>, polygon, "", FALSE)
        /\ StoreFrame /\ UNCHANGED <<disk, saved>>

Store_set_class ==
    \E oid \in ObjIds, name \in ClassNames :
        /\ models' = [models EXCEPT ![SV] = set_class(@, oid, name)]
        /\ Called("set_class", SV, oid, <<>>, <<>>, name, FALSE)
        /\ StoreFrame /\ UNCHANGED <<disk, saved>>

Store_clear_object ==
    \E oid \in ObjIds :
        /\ models' = [models EXCEPT ![SV] = clear_object(@, oid)]
        /\ Called("clear_object", SV, oid, <<>>, <<>>, "", FALSE)
        /\ StoreFrame /\ UNCHANGED <<disk, saved>>

Store_set_index ==
    \E i \in Indices :
        /\ models' = [models EXCEPT ![SV] = set_index(@, i)]
        /\ Called("set_index", SV, 0, <<i>>, <<>>, "", FALSE)
        /\ StoreFrame /\ UNCHANGED <<disk, saved>>

\* save_annotations(path, models)
Store_save ==
    \E outcome \in SaveOutcomes :
        LET r == save_annotations(disk[StorePath].annotations, models, model_keys, outcome)
        IN  /\ models' = r.models
            /\ disk' = [disk EXCEPT ![StorePath].annotations = r.file]
            /\ saved' = IF r.raised THEN saved ELSE [vid \in DOMAIN models |-> models[vid].ann]
            /\ Called("save_annotations", "", 0,
                      \* 1 when this save directly follows a save that succeeded
                      IF call.op = "save_annotations" /\ call.ret THEN <<1>> ELSE <<0>>,
                      <<>>, outcome, ~r.raised)
            /\ StoreFrame

\* a fresh AnnotationModel given the file's records of its video
Store_load ==
    /\ disk[StorePath].annotations.state # "corrupt"
    /\ LET by_video == load_annotations(disk[StorePath].annotations)
           m == load_records(AnnotationModel(FramesOf(SV)), Get(by_video, SV, <<>>))
       IN  /\ models' = [models EXCEPT ![SV] = m]
           /\ saved' = [saved EXCEPT ![SV] = m.ann]
    /\ Called("load_records", SV, 0, <<>>, <<>>, "", TRUE)
    /\ StoreFrame /\ UNCHANGED disk

NextStore ==
    \/ Store_add_point
    \/ Store_remove_point
    \/ Store_set_box
    \/ Store_set_polygon
    \/ Store_set_class
    \/ Store_clear_object
    \/ Store_set_index
    \/ Store_save
    \/ Store_load

SpecStore == InitStore /\ [][NextStore]_vars

----------------------------------------------------------------------------
(* load_records on record lists: a fresh store loading a given file *)

MaxRecs == 2
MaxBatch == 1

LoadPoints == {<<>>, <<<<10, 20>>>>}

\* well-formed records of video SV, frame 0
RecordInputs ==
    {[video_id |-> SV, frame_idx |-> 0, obj_id |-> oid,
      points |-> pts, labels |-> [i \in 1..Len(pts) |-> 1]]
     @@ Opt("box", hasb, <<0, 0, 5, 5>>)
     @@ Opt("polygon", hasp, <<<<0, 0>>, <<4, 0>>, <<4, 4>>>>)
     @@ Opt("class", hasc, "object") :
        oid \in ObjIds, pts \in LoadPoints, hasb \in BOOLEAN, hasp \in BOOLEAN,
        hasc \in BOOLEAN}

\* records of SV whose points and labels lists differ in length
MismatchedRecords ==
    {[video_id |-> SV, frame_idx |-> 0, obj_id |-> oid, points |-> pl[1], labels |-> pl[2]] :
        oid \in ObjIds, pl \in {<<<<<<10, 20>>>>, <<>>>>, <<<<>>, <<1>>>>}}

\* records of SV with one field that does not parse (a box is then a list of
\* 4 items and a polygon a list of 3 or more)
UnparsableRecords ==
    {[video_id |-> SV, frame_idx |-> 0, obj_id |-> oid, points |-> <<<<30, 20>>>>,
      labels |-> <<0>>, box |-> <<1, 1, 4, 4>>,
      polygon |-> <<<<1, 1>>, <<4, 1>>, <<4, 4>>>>, class |-> "default", unparsable |-> k] :
        oid \in ObjIds,
        k \in {"frame_idx", "obj_id", "points", "labels", "box", "polygon"}}

LoadInputs == RecordInputs \cup MismatchedRecords \cup UnparsableRecords

InitLoad ==
    /\ project = NoProject
    /\ models = (SV :> AnnotationModel(FramesOf(SV)))
    /\ model_keys = <<SV>>
    /\ current_video_id = NoneStr
    /\ obj_spin = 1
    /\ \E n \in 0..MaxRecs : \E recs \in [1..n -> LoadInputs] :
          disk = [p \in Projects |->
                    [EmptyDir EXCEPT !.annotations =
                                        IF p = StorePath THEN File(recs) ELSE File(<<>>)]]
    /\ running = TRUE
    /\ call = NoCall
    /\ saved = (SV :> EmptyDict)
    /\ nops = 0
    /\ sam2 = NoneStr
    /\ imports = <<>>
    /\ act_import_videos = FALSE
    /\ autosave_timer = FALSE
    /\ thread = NoThread
    /\ listing = <<>>

NextLoad == Store_load

SpecLoad == InitLoad /\ [][NextLoad]_vars

----------------------------------------------------------------------------
(* The main window: a project session *)

VideoIds == {"v1", "v2"}
\* what Sam2Service._init_model leaves: available is False when a dependency
\* (torch, sam2, cv2) is missing or the weights fail to load
Sam2Services == {"unavailable", "available"}
UIBoxes == {<<0, 0, 5, 5>>, <<1, 1, 4, 0>>}

\* the keys of a dict filled in the order of videos
RECURSIVE Keys(_)
Keys(videos) ==
    IF videos = <<>> THEN <<>>
    ELSE LET n == Len(videos)
             rest == Keys(SubSeq(videos, 1, n - 1))
         IN  IF \E i \in 1..Len(rest) : rest[i] = videos[n] THEN rest
             ELSE Append(rest, videos[n])

\* store.load_project: the Project of a project.json
store_load_project(p) == set_default_classes(Project_from_dict(p, disk[p]))

\* store.create_project on directory d: the Project and the directory it leaves
create_project(p, d) ==
    LET proj == set_default_classes(Project(p, <<>>, UIState, <<>>))
    IN  [project |-> proj,
         dir |-> Descriptor(proj, IF d.annotations.state = "missing" THEN File(<<>>)
                                  ELSE d.annotations)]

\* a load_project that builds stores only for the videos the file has records of
OpenedModels_recorded(videos, file) ==
    LET records_by_video == load_annotations(file)
    IN  [vid \in {videos[i] : i \in 1..Len(videos)} \cap DOMAIN records_by_video |->
            load_records(AnnotationModel(FramesOf(vid)), records_by_video[vid])]
\* the per-video stores MainWindow.load_project builds from the annotations file
OpenedModels(videos, file) ==
    LET records_by_video == load_annotations(file)
    IN  [vid \in {videos[i] : i \in 1..Len(videos)} |->
            IF vid \in DOMAIN records_by_video
            THEN load_records(AnnotationModel(FramesOf(vid)), records_by_video[vid])
            ELSE AnnotationModel(FramesOf(vid))]

\* MainWindow.load_frame on a session s = [models, cur]
load_frame(s, i) ==
    IF s.cur \notin DOMAIN s.models THEN s
    ELSE IF Len(s.models[s.cur].frames) = 0 THEN s
    ELSE [s EXCEPT !.models[s.cur].index = clamp_index(s.models[s.cur], i)]

\* MainWindow.load_video on a session s = [models, cur]
load_video(s, vid_id) ==
    IF vid_id \notin DOMAIN s.models THEN s
    ELSE load_frame([s EXCEPT !.cur = vid_id], s.models[vid_id].index)

\* MainWindow._refresh_video_tree: the tree selection it makes loads that video
refresh_video_tree(s, videos, select_id) ==
    IF select_id # NoneStr /\ select_id # ""
    THEN IF \E i \in 1..Len(videos) : videos[i] = select_id
         THEN load_video(s, select_id) ELSE s
    ELSE IF videos # <<>> THEN load_video(s, videos[1]) ELSE s

\* MainWindow.apply_ui_state
apply_ui_state(s, proj) ==
    LET state == proj.ui_state
    IN  IF state.last_video_id # NoneStr /\ state.last_video_id # ""
           /\ state.last_video_id \in DOMAIN s.models
        THEN load_frame(load_video(s, state.last_video_id), state.last_frame_index)
        ELSE IF proj.videos # <<>> THEN load_video(s, proj.videos[1]) ELSE s

\* MainWindow.load_project(project), the annotations file being d.annotations
OpenProject(proj, d, op) ==
    /\ sam2' \in Sam2Services
    /\ UNCHANGED <<imports, thread, listing>>
    /\ IF d.annotations.state = "corrupt"
       THEN \* json.load raises in load_annotations, after self.project and self.sam2 are set
            /\ project' = proj
            /\ running' = FALSE
            /\ UNCHANGED <<models, model_keys, current_video_id, obj_spin, saved,
                           act_import_videos, autosave_timer, thread, listing>>
            /\ Called(op, "", 0, <<>>, <<>>, proj.name, FALSE)
       ELSE LET ms == OpenedModels(proj.videos, d.annotations)
                s1 == refresh_video_tree([models |-> ms, cur |-> current_video_id],
                                         proj.videos, proj.ui_state.last_video_id)
                s2 == apply_ui_state(s1, proj)
            IN  /\ project' = proj
                /\ models' = s2.models
                /\ model_keys' = Keys(proj.videos)
                /\ current_video_id' = s2.cur
                /\ obj_spin' = IF proj.ui_state.last_obj_id = 0 THEN 1
                               ELSE proj.ui_state.last_obj_id
                /\ saved' = [vid \in DOMAIN ms |-> ms[vid].ann]
                /\ running' = TRUE
                /\ act_import_videos' = TRUE
                /\ autosave_timer' = TRUE      \* apply_ui_state: set_mode calls mark_dirty
                /\ Called(op, "", 0, <<>>, <<>>, proj.name, TRUE)

MainWindow_action_new_project ==
    \E p \in Projects :
        /\ running
        /\ LET c == create_project(p, disk[p])
           IN  /\ disk' = [disk EXCEPT ![p] = c.dir]
               /\ OpenProject(c.project, c.dir, "action_new_project")

MainWindow_action_open_project ==
    \E p \in Projects :
        /\ running
        /\ disk[p].exists
        /\ UNCHANGED disk
        /\ OpenProject(store_load_project(p), disk[p], "action_open_project")

\* a video picked in the tree: _on_tree_selection_changed
MainWindow_load_video ==
    \E i \in 1..Len(project.videos) :
        LET s == load_video([models |-> models, cur |-> current_video_id], project.videos[i])
        IN  /\ running /\ project.open
            /\ models' = s.models
            /\ current_video_id' = s.cur
            /\ Called("load_video", project.videos[i], 0, <<>>, <<>>, "", FALSE)
            /\ UNCHANGED <<project, model_keys, obj_spin, disk, running, saved, sam2, imports,
                           act_import_videos, autosave_timer, thread, listing>>

\* slider, frame list and the Left/Right/Home/End shortcuts
MainWindow_load_frame ==
    \E i \in Indices :
        LET s == load_frame([models |-> models, cur |-> current_video_id], i)
        IN  /\ running /\ project.open
            /\ models' = s.models
            /\ Called("load_frame", current_video_id, 0, <<i>>, <<>>, "", FALSE)
            /\ UNCHANGED <<project, model_keys, current_video_id, obj_spin, disk, running,
                           saved, sam2, imports, act_import_videos,
                           autosave_timer, thread, listing>>

MainWindow_obj_spin ==
    \E v \in ObjIds :
        /\ running /\ project.open
        /\ v # obj_spin
        /\ obj_spin' = v
        /\ Called("obj_spin", current_video_id, 0, <<v>>, <<>>, "", FALSE)
        /\ UNCHANGED <<project, models, model_keys, current_video_id, disk, running, saved,
                       sam2, imports, act_import_videos,
                       autosave_timer, thread, listing>>

\* self.current_model() is not None
HasModel == current_video_id \in DOMAIN models

UIFrame ==
    UNCHANGED <<project, model_keys, current_video_id, obj_spin, disk, running, saved, sam2,
                imports, act_import_videos, thread, listing>>

\* a mark_dirty that stops the timer and does not start it
mark_dirty_stop(reached) == autosave_timer' = (autosave_timer /\ ~(reached /\ project.open))
\* MainWindow.mark_dirty, reached when the slot did not return early: with a
\* project open the autosave timer is stopped and started
mark_dirty(reached) == autosave_timer' = ((reached /\ project.open) \/ autosave_timer)

MainWindow_add_point ==
    \E x \in Xs, y \in Ys, label \in Labels :
        /\ running /\ project.open
        /\ models' = IF HasModel
                     THEN [models EXCEPT ![current_video_id] =
                                            add_point(@, obj_spin, x, y, label)]
                     ELSE models
        /\ Called("MainWindow.add_point", current_video_id, obj_spin, <<x, y, label>>, <<>>,
                  "", FALSE)
        /\ mark_dirty(HasModel)
        /\ UIFrame

MainWindow_remove_point ==
    \E x \in Xs, y \in Ys, label \in Labels :
        /\ running /\ project.open
        /\ models' = IF HasModel
                     THEN [models EXCEPT ![current_video_id] =
                                            remove_point(@, obj_spin, x, y, label).m]
                     ELSE models
        /\ Called("MainWindow.remove_point", current_video_id, obj_spin, <<x, y, label>>,
                  <<>>, "", FALSE)
        /\ mark_dirty(HasModel)
        /\ UIFrame

MainWindow_set_box ==
    \E b \in UIBoxes :
        /\ running /\ project.open
        /\ models' = IF HasModel
                     THEN [models EXCEPT ![current_video_id] =
                                            set_box(@, obj_spin, b[1], b[2], b[3], b[4])]
                     ELSE models
        /\ Called("MainWindow.set_box", current_video_id, obj_spin, b, <<>>, "", FALSE)
        /\ mark_dirty(HasModel)
        /\ UIFrame

\* the D shortcut
MainWindow_clear_mask_for_current ==
    /\ running /\ project.open
    /\ models' = IF HasModel
                 THEN [models EXCEPT ![current_video_id] = set_polygon(@, obj_spin, None)]
                 ELSE models
    /\ Called("clear_mask_for_current", current_video_id, obj_spin, <<>>, <<>>, "", HasModel)
    /\ mark_dirty(HasModel)
    /\ UIFrame

\* the polygons Sam2Service._mask_to_polygon may return: no contour, the contour
\* of a one-pixel mask, of a two-pixel mask, of a larger mask
OraclePolygons ==
    {<<>>, <<<<2, 2>>>>, <<<<0, 0>>, <<4, 0>>>>, <<<<0, 0>>, <<4, 0>>, <<4, 4>>>>}

\* what the oracle call of run_sam2 may meet: cv2.imread gives None, the
\* predictor raises, or a mask comes back and is converted
OracleOutcomes ==
    {[kind |-> "imread_fails", poly |-> <<>>], [kind |-> "predict_raises", poly |-> <<>>]}
    \cup {[kind |-> "mask", poly |-> poly] : poly \in OraclePolygons}

\* a run_sam2 that asks the oracle without looking for prompts
run_sam2_exit_unprompted(m, oid, oracle) ==
    IF sam2 = NoneStr THEN "no_service"
    ELSE IF sam2 # "available" THEN "unavailable"
    ELSE IF m.index >= Len(m.frames) THEN "frames_index_raises"
    ELSE IF oracle.kind # "mask" THEN oracle.kind
    ELSE IF Len(oracle.poly) = 0 THEN "empty_polygon"
    ELSE "committed"

\* where MainWindow.run_sam2 on store m and object oid ends
run_sam2_exit(m, oid, oracle) ==
    IF sam2 = NoneStr THEN "no_service"
    ELSE IF sam2 # "available" THEN "unavailable"
    ELSE LET obj == get_object(m, m.index, oid)
         IN  IF obj = None THEN "no_object"
             ELSE IF ~has_points(obj[1]) /\ ~has_box(obj[1]) THEN "no_prompts"
             ELSE IF m.index >= Len(m.frames) THEN "frames_index_raises"
             ELSE IF oracle.kind # "mask" THEN oracle.kind
             ELSE IF Len(oracle.poly) = 0 THEN "empty_polygon"
             ELSE "committed"

\* a current_obj_id that answers the object the spin box does not show
current_obj_id_other == (MaxObj + 1) - obj_spin
\* MainWindow.current_obj_id
current_obj_id == obj_spin

\* the E shortcut: model, fidx and oid are read once, the oracle is called in
\* the slot itself, and the result is committed before the slot returns
MainWindow_run_sam2 ==
    \E oracle \in OracleOutcomes :
        LET oid == current_obj_id
            exit == IF HasModel THEN run_sam2_exit(models[current_video_id], oid, oracle)
                    ELSE "no_model"
            asked == exit \in {"empty_polygon", "committed"}
        IN  /\ running /\ project.open
            /\ models' = IF exit = "committed"
                         THEN [models EXCEPT ![current_video_id] =
                                                set_polygon(@, oid, oracle.poly)]
                         ELSE models
            /\ running' = (exit \notin {"frames_index_raises", "predict_raises"})
            /\ Called("run_sam2", current_video_id, oid, <<>>,
                      IF asked THEN oracle.poly ELSE <<>>, exit, exit = "committed")
            /\ mark_dirty(exit = "committed")
            /\ UNCHANGED <<project, model_keys, current_video_id, obj_spin, disk, saved, sam2,
                           imports, act_import_videos, thread, listing>>

\* what a call of save_current_project may meet: save_project may raise too
AppSaveOutcomes == SaveOutcomes \cup {"config_raises"}

\* MainWindow.update_ui_state, the session holding stores ms and current video cur
update_ui_state(proj, ms, cur) ==
    [proj EXCEPT !.ui_state =
        [last_video_id |-> cur,
         last_frame_index |-> IF cur \in DOMAIN ms THEN ms[cur].index ELSE 0,
         last_obj_id |-> obj_spin]]

\* MainWindow.save_current_project with project proj open, stores ms (keys in
\* dict order) and current video cur: the project, the stores and the project
\* directory it leaves, and whether it raised
save_current_project(proj0, ms, keys, cur, outcome) ==
    LET proj == update_ui_state(proj0, ms, cur)
        d == disk[proj0.name]
    IN  IF outcome = "config_raises"
        THEN [project |-> proj, models |-> ms, dir |-> d, raised |-> TRUE]
        ELSE LET r == save_annotations(d.annotations, ms, keys, outcome)
             IN  [project |-> proj, models |-> r.models,
                  dir |-> Descriptor(proj, r.file),
                  raised |-> r.raised]

\* the state a save leaves; the slot's exception ends the application
Saving(outcome, op, stays) ==
    \E r \in {save_current_project(project, models, model_keys, current_video_id, outcome)} :
        /\ project' = r.project
        /\ models' = r.models
        /\ disk' = [disk EXCEPT ![project.name] = r.dir]
        /\ saved' = IF r.raised THEN saved ELSE [vid \in DOMAIN models |-> models[vid].ann]
        /\ running' = (stays /\ ~r.raised)
        /\ autosave_timer' = (autosave_timer /\ op # "autosave_timeout")
        /\ IF op = "autosave_timeout" THEN Fired(op, "", 0, <<>>, <<>>, outcome, ~r.raised)
           ELSE Called(op, "", 0, <<>>, <<>>, outcome, ~r.raised)
        /\ UNCHANGED <<model_keys, current_video_id, obj_spin, sam2, imports,
                       act_import_videos, thread, listing>>

\* Save Project
MainWindow_save_current_project ==
    \E outcome \in AppSaveOutcomes :
        /\ running /\ project.open
        /\ Saving(outcome, "save_current_project", TRUE)

\* the timeout of the autosave timer, connected to save_current_project
MainWindow_autosave_timeout ==
    \E outcome \in AppSaveOutcomes :
        /\ running /\ project.open
        /\ autosave_timer
        /\ Saving(outcome, "autosave_timeout", TRUE)

\* a mode button or shortcut: set_mode changes the view's mode and calls mark_dirty
MainWindow_set_mode ==
    /\ running /\ project.open
    /\ mark_dirty(TRUE)
    /\ Called("set_mode", "", 0, <<>>, <<>>, "", TRUE)
    /\ UNCHANGED models
    /\ UIFrame

MainWindow_closeEvent ==
    \E outcome \in AppSaveOutcomes :
        /\ running /\ project.open
        /\ Saving(outcome, "closeEvent", FALSE)

\* the "classes" entry of a project.json: missing, empty, or one class without a color
ClassesInputs ==
    {EmptyDict, "classes" :> <<>>, "classes" :> <<[name |-> "cat"]>>}

\* Import Videos: a VideoImportThread starts on the frames root of the open
\* project; n of the chosen videos will be extracted
MainWindow_action_import_videos ==
    \E n \in 0..MaxBatch :
        /\ running /\ project.open
        /\ act_import_videos
        /\ imports' = Append(imports, [root |-> project.name, n |-> n])
        /\ act_import_videos' = FALSE
        /\ Called("action_import_videos", "", 0, <<n>>, <<>>, project.name, TRUE)
        /\ UNCHANGED <<project, models, model_keys, current_video_id, obj_spin, disk, running,
                       saved, sam2, autosave_timer, thread, listing>>

\* the values uuid4().hex[:8] may give: v1 is the id of a video of p1
Uuids == {"v1", "v3"}

\* the loop of _on_import_finished over results with ids vid_ids, on
\* s = [videos, models, keys]
RECURSIVE register_videos(_, _)
register_videos(s, vid_ids) ==
    IF vid_ids = <<>> THEN s
    ELSE LET vid_id == Head(vid_ids)
         IN  register_videos(
                [videos |-> Append(s.videos, vid_id),
                 models |-> (vid_id :> AnnotationModel(FramesOf(vid_id))) @@ s.models,
                 keys   |-> IF vid_id \in DOMAIN s.models THEN s.keys
                            ELSE Append(s.keys, vid_id)],
                Tail(vid_ids))

\* the finished signal of import thread k
MainWindow_on_import_finished ==
    \E k \in 1..Len(imports) :
      \E vid_ids \in [1..imports[k].n -> Uuids], outcome \in AppSaveOutcomes :
        /\ running /\ project.open
        /\ imports' = RemoveAt(imports, k)
        /\ act_import_videos' = TRUE
        /\ UNCHANGED <<obj_spin, sam2, autosave_timer, thread, listing>>
        /\ IF imports[k].n > 0 /\ imports[k].root # project.name
           THEN \* relative_to(self.project.root) raises on the first result
                /\ running' = FALSE
                /\ UNCHANGED <<project, models, model_keys, current_video_id, disk, saved>>
                /\ Called("_on_import_finished", "", 0, <<imports[k].n>>, <<>>,
                          "relative_to_raises", FALSE)
           ELSE LET reg == register_videos([videos |-> project.videos, models |-> models,
                                            keys |-> model_keys], vid_ids)
                    s1 == refresh_video_tree(
                              [models |-> reg.models, cur |-> current_video_id], reg.videos,
                              IF vid_ids = <<>> THEN NoneStr ELSE vid_ids[Len(vid_ids)])
                    r == save_current_project([project EXCEPT !.videos = reg.videos],
                                              s1.models, reg.keys, s1.cur, outcome)
                IN  /\ project' = r.project
                    /\ models' = r.models
                    /\ model_keys' = reg.keys
                    /\ current_video_id' = s1.cur
                    /\ disk' = [disk EXCEPT ![project.name] = r.dir]
                    /\ saved' = [vid \in DOMAIN r.models |->
                                    IF r.raised /\ vid \in DOMAIN saved THEN saved[vid]
                                    ELSE s1.models[vid].ann]
                    /\ running' = ~r.raised
                    /\ Called("_on_import_finished", "", 0, <<imports[k].n>>, <<>>,
                              outcome, ~r.raised)

DiskInputs ==
    {<<classes, recs>> \in
        ClassesInputs \X
        {<<>>,
         <<Record("v1", 1, 1, ObjectAnno_set_box(ObjectAnno, 0, 0, 5, 5))>>,
         <<Record("v1", 0, 1,
                  ObjectAnno_set_polygon(ObjectAnno, <<<<0, 0>>, <<4, 0>>, <<4, 4>>>>))>>} :
     \* the classes entry varies beside an empty annotation list only
     classes = EmptyDict \/ recs = <<>>}

InitDisks ==
    {[p \in Projects |->
        IF p = "p1"
        THEN [exists |-> TRUE, videos |-> <<"v1", "v2">>, ui_state |-> UIState,
              annotations |-> File(i[2])] @@ i[1]
        ELSE EmptyDir] : i \in DiskInputs}

Init ==
    /\ project = NoProject
    /\ models = EmptyDict
    /\ model_keys = <<>>
    /\ current_video_id = NoneStr
    /\ obj_spin = 1
    /\ disk \in InitDisks
    /\ running = TRUE
    /\ call = NoCall
    /\ saved = EmptyDict
    /\ nops = 0
    /\ sam2 = NoneStr
    /\ imports = <<>>
    /\ act_import_videos = FALSE
    /\ autosave_timer = FALSE
    /\ thread = NoThread
    /\ listing = <<>>

Next ==
    \/ MainWindow_action_new_project
    \/ MainWindow_action_open_project
    \/ MainWindow_load_video
    \/ MainWindow_load_frame
    \/ MainWindow_obj_spin
    \/ MainWindow_add_point
    \/ MainWindow_remove_point
    \/ MainWindow_set_box
    \/ MainWindow_clear_mask_for_current
    \/ MainWindow_run_sam2
    \/ MainWindow_action_import_videos
    \/ MainWindow_on_import_finished
    \/ MainWindow_save_current_project
    \/ (nops < MaxOps /\ MainWindow_autosave_timeout)
    \/ MainWindow_set_mode
    \/ MainWindow_closeEvent

Spec == Init /\ [][Next]_vars

\* The session under its autosave timer: at most MaxTimerOps calls of the
\* operator, and the timeout, which is the program's own step and is enabled
\* whenever the timer is active and the event loop runs.
MaxTimerOps == 3

NextAutosave ==
    \/ /\ nops < MaxTimerOps
       /\ \/ MainWindow_action_open_project
          \/ MainWindow_load_video
          \/ MainWindow_add_point
          \/ MainWindow_remove_point
          \/ MainWindow_set_box
          \/ MainWindow_clear_mask_for_current
          \/ MainWindow_run_sam2
          \/ MainWindow_save_current_project
          \/ MainWindow_set_mode
          \/ MainWindow_closeEvent
    \/ MainWindow_autosave_timeout

\* an active single-shot QTimer times out once its interval has passed
SpecAutosave == Init /\ [][NextAutosave]_vars /\ WF_vars(MainWindow_autosave_timeout)

----------------------------------------------------------------------------
(* VideoImportThread.run: one import thread, its batch and the signals it emits *)

MaxVideos == 3

\* what the try block meets for one video: nothing, an exception before the
\* first progress signal (_unique_dir), or one after it (_extract, iterdir)
ItemOutcomes == {"ok", "unique_dir_raises", "extract_raises"}

\* frames_root.mkdir(parents=True, exist_ok=True), outside the try block
MkdirOutcomes == {"ok", "raises"}

\* the batches of n videos, each named by its place in the file dialog's list
RECURSIVE Batches(_)
Batches(n) ==
    IF n = 0 THEN {<<>>}
    ELSE {Append(b, [name |-> n, outcome |-> o]) : b \in Batches(n - 1), o \in ItemOutcomes}

progress(text, name, cur, total) ==
    [sig |-> "progress", text |-> text, name |-> name, cur |-> cur, total |-> total]
error(name) == [sig |-> "error", name |-> name]
finished(results) == [sig |-> "finished", results |-> results]
VideoImportResult(video) == [source_path |-> video.name]

\* the signals one pass of the loop body emits for video number idx of total
ItemSignals(video, idx, total) ==
    IF video.outcome = "ok"
    THEN <<progress("Extracting", video.name, idx - 1, total),
           progress("Extracted", video.name, idx, total)>>
    ELSE IF video.outcome = "extract_raises"
    THEN <<progress("Extracting", video.name, idx - 1, total),
           error(video.name),
           progress("Failed", video.name, idx, total)>>
    ELSE <<error(video.name), progress("Failed", video.name, idx, total)>>

ImportFrame ==
    UNCHANGED <<project, models, model_keys, current_video_id, obj_spin, disk, running,
                call, saved, nops, sam2, imports, act_import_videos, autosave_timer,
                listing>>

\* run() up to the loop: results = [], total, frames_root.mkdir
VideoImportThread_run ==
    /\ thread.pc = "start"
    /\ thread' = [thread EXCEPT !.pc = IF thread.mkdir = "ok" THEN "loop" ELSE "raised"]
    /\ ImportFrame

\* one pass of the loop body, for the next video of the batch
VideoImportThread_item ==
    /\ thread.pc = "loop"
    /\ thread.idx < Len(thread.videos)
    /\ LET idx == thread.idx + 1
           video == thread.videos[idx]
       IN thread' = [thread EXCEPT
                        !.idx = idx,
                        !.results = IF video.outcome = "ok"
                                    THEN Append(@, VideoImportResult(video)) ELSE @,
                        !.signals = @ \o ItemSignals(video, idx, Len(thread.videos))]
    /\ ImportFrame

\* after the loop: self.finished.emit(results)
VideoImportThread_finished ==
    /\ thread.pc = "loop"
    /\ thread.idx = Len(thread.videos)
    /\ thread' = [thread EXCEPT !.pc = "done",
                                !.signals = Append(@, finished(thread.results))]
    /\ ImportFrame

InitImport ==
    /\ project = NoProject
    /\ models = EmptyDict
    /\ model_keys = <<>>
    /\ current_video_id = NoneStr
    /\ obj_spin = 1
    /\ disk = [p \in Projects |-> EmptyDir]
    /\ running = TRUE
    /\ call = NoCall
    /\ saved = EmptyDict
    /\ nops = 0
    /\ sam2 = NoneStr
    /\ imports = <<>>
    /\ act_import_videos = FALSE
    /\ autosave_timer = FALSE
    /\ listing = <<>>
    /\ \E n \in 0..MaxVideos : \E batch \in Batches(n) : \E m \in MkdirOutcomes :
          thread = [pc |-> "start", mkdir |-> m, videos |-> batch, idx |-> 0,
                    results |-> <<>>, signals |-> <<>>]

NextImport ==
    \/ VideoImportThread_run
    \/ VideoImportThread_item
    \/ VideoImportThread_finished

\* a started QThread runs run() until it returns or raises
SpecImport == InitImport /\ [][NextImport]_vars /\ WF_vars(NextImport)

----------------------------------------------------------------------------
(* AnnotationModel.__init__: the frame list of a frames directory *)

MaxFiles == 3

IMG_EXTS == {".jpg", ".jpeg", ".png", ".bmp", ".tif", ".tiff"}

\* file names as (stem, suffix), a stem being a sequence of characters
Stems ==
    {<<"1">>, <<"2">>, <<"1", "0">>, <<"0", "1">>, <<"a">>, <<"b">>,
     <<"a", "1", "b", "2">>}
DirFiles ==
    {[stem |-> st, suffix |-> ".jpg"] : st \in Stems}
    \cup {[stem |-> <<"1">>, suffix |-> ".png"], [stem |-> <<"2">>, suffix |-> ".txt"]}

DigitValue == ("0" :> 0) @@ ("1" :> 1) @@ ("2" :> 2)
isdigit(s) == s # <<>> /\ \A k \in 1..Len(s) : s[k] \in DOMAIN DigitValue

\* int(s) of a run of digits
RECURSIVE int(_)
int(s) ==
    IF s = <<>> THEN 0
    ELSE 10 * int(SubSeq(s, 1, Len(s) - 1)) + DigitValue[s[Len(s)]]

\* re.findall(r"\d+", s)[-1]: the last maximal run of digits; <<>> if there is none
LastDigitRun(s) ==
    LET ends == {k \in 1..Len(s) : s[k] \in DOMAIN DigitValue}
    IN IF ends = {} THEN <<>>
       ELSE LET last == CHOOSE k \in ends : \A l \in ends : l <= k
                first == CHOOSE k \in 1..last :
                            /\ \A l \in k..last : l \in ends
                            /\ (k = 1 \/ (k - 1) \notin ends)
            IN SubSeq(s, first, last)

_numeric_key(p) ==
    IF isdigit(p.stem) THEN int(p.stem)
    ELSE IF LastDigitRun(p.stem) # <<>> THEN int(LastDigitRun(p.stem)) ELSE 0

\* sorted(list, key=_numeric_key): Python's sort is stable, so entries with
\* equal keys keep the order they have in list
RECURSIVE sorted_by_key(_)
sorted_by_key(list) ==
    IF list = <<>> THEN <<>>
    ELSE LET head == sorted_by_key(SubSeq(list, 1, Len(list) - 1))
             x == list[Len(list)]
             n == Cardinality({k \in 1..Len(head) : _numeric_key(head[k]) <= _numeric_key(x)})
         IN SubSeq(head, 1, n) \o <<x>> \o SubSeq(head, n + 1, Len(head))

\* self.frames for a directory that iterdir() lists as entries
Frames(entries) ==
    LET img(p) == p.suffix \in IMG_EXTS
    IN sorted_by_key(SelectSeq(entries, img))

\* the orders in which iterdir() may list the files of a set
RECURSIVE Listings(_)
Listings(files) ==
    IF files = {} THEN {<<>>}
    ELSE UNION {{Append(l, f) : l \in Listings(files \ {f})} : f \in files}

\* AnnotationModel(frames_dir) for an existing directory
AnnotationModel_init ==
    /\ models = EmptyDict
    /\ models' = (SV :> AnnotationModel(Frames(listing)))
    /\ model_keys' = <<SV>>
    /\ UNCHANGED <<project, current_video_id, obj_spin, disk, running, call, saved, nops,
                   sam2, imports, act_import_videos, autosave_timer, thread, listing>>

InitFrames ==
    /\ project = NoProject
    /\ models = EmptyDict
    /\ model_keys = <<>>
    /\ current_video_id = NoneStr
    /\ obj_spin = 1
    /\ disk = [p \in Projects |-> EmptyDir]
    /\ running = TRUE
    /\ call = NoCall
    /\ saved = EmptyDict
    /\ nops = 0
    /\ sam2 = NoneStr
    /\ imports = <<>>
    /\ act_import_videos = FALSE
    /\ autosave_timer = FALSE
    /\ thread = NoThread
    /\ \E files \in SUBSET DirFiles :
          /\ Cardinality(files) <= MaxFiles
          /\ listing \in Listings(files)

NextFrames == AnnotationModel_init

SpecFrames == InitFrames /\ [][NextFrames]_vars

----------------------------------------------------------------------------
(* Properties of the store *)

FrameIdx == 0..(NFrames - 1)
ValidBox(b) == b # None /\ b[3] > 0 /\ b[4] > 0
Content(o) == ValidBox(o.box) \/ o.points # <<>> \/ Len(o.polygon) >= 3
\* an absent object read as one with no fields set
Fields(g) == IF g = None THEN ObjectAnno ELSE g[1]
\* store m written with to_records and read back into a fresh store
Reloaded(m, vid) == load_records(AnnotationModel(m.frames), to_records(m, vid))
\* what a record keeps of an object
Kept(o) ==
    [box |-> IF ValidBox(o.box) THEN o.box ELSE None,
     points |-> o.points, labels |-> o.labels,
     polygon |-> IF Len(o.polygon) >= 3 THEN o.polygon ELSE None,
     class_name |-> IF o.class_name = "" THEN NoneStr ELSE o.class_name]

\* C1 as stated: to_records then load_records into a fresh store gives a store
\* with the same box, points, labels, polygon and class for every frame and
\* object (an absent object read as an empty one) and the same
\* is_frame_annotated for every frame.
C1_RoundTripExact ==
    \A vid \in DOMAIN models : \A f \in FrameIdx, o \in ObjIds :
        LET m == models[vid]
            r == Reloaded(m, vid)
        IN  /\ Fields(get_object(r, f, o)) = Fields(get_object(m, f, o))
            /\ is_frame_annotated(r, f) = is_frame_annotated(m, f)

\* C1 amended: the reloaded store holds exactly the objects that have content,
\* each with its points, labels, its box if valid, its polygon if of 3 or more
\* vertices and its class if non-empty; is_frame_annotated agrees on every
\* frame and the reloaded store writes the same records.
C1_RoundTrip ==
    \A vid \in DOMAIN models : \A f \in FrameIdx, o \in ObjIds :
        LET m == models[vid]
            r == Reloaded(m, vid)
            g == get_object(m, f, o)
            h == get_object(r, f, o)
        IN  /\ IF g # None /\ Content(g[1]) THEN h = <<Kept(g[1])>> ELSE h = None
            /\ is_frame_annotated(r, f) = is_frame_annotated(m, f)
            /\ to_records(r, vid) = to_records(m, vid)

C1_Witness ==
    \E vid \in DOMAIN models : \E f \in FrameIdx, o, o2 \in ObjIds :
        LET g == get_object(models[vid], f, o)
            g2 == get_object(models[vid], f, o2)
        IN  /\ g # None /\ g[1].points # <<>>
            /\ g[1].box # None /\ ~ValidBox(g[1].box)
            /\ g2 # None /\ ~Content(g2[1]) /\ g2[1].class_name = "object"

\* C4 as stated: a store whose objects differ from those at its last save or
\* load is dirty.
C4_DirtyTracksChanges ==
    \A vid \in DOMAIN models : \A f \in FrameIdx, o \in ObjIds :
        get_object(models[vid], f, o) # get_object([ann |-> saved[vid]], f, o)
            => models[vid].dirty

\* C6 as stated: remove_point without a match returns false and changes nothing
\* of the store: no dirty flag, no frame entry, no object entry, no field.
C6_RemoveMissChangesNothing ==
    [][(call'.op = "remove_point" /\ ~call'.ret) => models' = models]_vars

\* C7: remove_point with a match returns true and removes the first
\* (x, y, label) in insertion order, one point and its label; the other points
\* and labels keep their order and pairing; without a match it returns false.
C7_RemoveFirstMatch ==
    [][call'.op = "remove_point" =>
        LET x == call'.nums[1]
            y == call'.nums[2]
            label == call'.nums[3]
            pre == Fields(call'.before)
            post == Fields(get_object(models'[call'.vid], models[call'.vid].index, call'.oid))
            n == Len(pre.points)
            hit == {i \in 1..n : pre.points[i] = <<x, y>> /\ pre.labels[i] = label}
        IN  /\ call'.ret = (hit # {})
            /\ hit # {} =>
                 \E i \in hit :
                    /\ \A j \in hit : i <= j
                    /\ Len(post.points) = n - 1 /\ Len(post.labels) = n - 1
                    /\ \A k \in 1..(n - 1) :
                          /\ post.points[k] = pre.points[IF k < i THEN k ELSE k + 1]
                          /\ post.labels[k] = pre.labels[IF k < i THEN k ELSE k + 1]
                    /\ post.box = pre.box /\ post.polygon = pre.polygon
                    /\ post.class_name = pre.class_name]_vars

\* a removal that found the point twice, the first of them not in front
C7_Witness ==
    /\ call.op = "remove_point" /\ call.ret
    /\ LET post == Fields(Target(call.vid, call.oid))
           pre == Fields(call.before)
       IN  /\ Len(pre.points) = 3
           /\ pre.points[1] # <<call.nums[1], call.nums[2]>>
           /\ pre.points[2] = pre.points[3] /\ pre.labels[2] = pre.labels[3]
           /\ Len(post.points) = 2
           /\ post.points[2] = <<call.nums[1], call.nums[2]>>

\* C8: is_frame_annotated(f) is true exactly when some object of frame f has a
\* box with w > 0 and h > 0, or a point, or a polygon of 3 or more vertices; a
\* frame whose objects carry only a class name is not annotated.
C8_HasContentLaw ==
    \A vid \in DOMAIN models : \A f \in FrameIdx :
        LET m == models[vid]
            objs == {Fields(get_object(m, f, o)) : o \in ObjIds}
        IN  is_frame_annotated(m, f) =
               (\E ob \in objs :
                   \/ (Len(ob.box) = 4 /\ ob.box[3] > 0 /\ ob.box[4] > 0)
                   \/ Len(ob.points) >= 1
                   \/ Len(ob.polygon) >= 3)

\* a frame with a class-only object and an object whose polygon has 2 vertices
C8_Witness ==
    \E vid \in DOMAIN models : \E f \in FrameIdx, o, o2 \in ObjIds :
        LET g == get_object(models[vid], f, o)
            g2 == get_object(models[vid], f, o2)
        IN  /\ g # None /\ g[1].class_name = "object" /\ ~Content(g[1])
            /\ g2 # None /\ Len(g2[1].polygon) = 2
            /\ ~is_frame_annotated(models[vid], f)

\* the case of C9: set_box with w <= 0 or h <= 0 on an object that had a
\* valid box, no points and no polygon
ZeroBoxCase(c) ==
    /\ c.op = "set_box"
    /\ (c.nums[3] <= 0 \/ c.nums[4] <= 0)
    /\ c.before # None
    /\ ValidBox(c.before[1].box)
    /\ c.before[1].points = <<>>
    /\ c.before[1].polygon = None

NoRecordFor(m, vid, f, o) ==
    \A i \in 1..Len(to_records(m, vid)) :
        ~(to_records(m, vid)[i].frame_idx = f /\ to_records(m, vid)[i].obj_id = o)

\* C9 as stated: after such a set_box the box value is stored, the frame is
\* not annotated and to_records has no record for the object.
C9_ZeroBoxFrameNotAnnotated ==
    [][ZeroBoxCase(call') =>
        LET m == models'[call'.vid]
        IN  /\ Fields(get_object(m, m.index, call'.oid)).box = call'.nums
            /\ ~is_frame_annotated(m, m.index)
            /\ NoRecordFor(m, call'.vid, m.index, call'.oid)]_vars

\* C9 amended: the box value is stored, to_records has no record for the
\* object, and the frame is annotated exactly when another object of the frame
\* has content.
C9_ZeroBox ==
    [][ZeroBoxCase(call') =>
        LET m == models'[call'.vid]
        IN  /\ Fields(get_object(m, m.index, call'.oid)).box = call'.nums
            /\ is_frame_annotated(m, m.index) =
                  (\E o \in ObjIds \ {call'.oid} :
                      Content(Fields(get_object(m, m.index, o))))
            /\ NoRecordFor(m, call'.vid, m.index, call'.oid)]_vars

C9_Witness ==
    /\ ZeroBoxCase(call)
    /\ Fields(Target(call.vid, call.oid)).box = <<0, 0, 0, 0>>
    /\ ~is_frame_annotated(models[call.vid], models[call.vid].index)

\* C2 as stated: of two records that parse, for the same frame and object, the
\* later one decides the object: its points, labels, box, polygon and class are those a
\* fresh store gets from the later record alone.
C2_LaterRecordReplaces ==
    call.op = "load_records" =>
        LET recs == disk[StorePath].annotations.records
            key(r) == <<r.frame_idx, r.obj_id>>
        IN  \A i, j \in 1..Len(recs) :
               (/\ \A k \in 1..Len(recs) : "unparsable" \notin DOMAIN recs[k]
                /\ i < j
                /\ key(recs[i]) = key(recs[j])
                /\ \A k \in (j + 1)..Len(recs) : key(recs[k]) # key(recs[j]))
               => get_object(models[SV], recs[j].frame_idx, recs[j].obj_id)
                    = get_object(load_records(AnnotationModel(FramesOf(SV)), <<recs[j]>>),
                                 recs[j].frame_idx, recs[j].obj_id)

----------------------------------------------------------------------------
(* Properties of the project session *)

SaveOps == {"save_current_project", "closeEvent"}
VideosOf(proj) == {proj.videos[i] : i \in 1..Len(proj.videos)}
RecordsOf(file) == {file.records[i] : i \in 1..Len(file.records)}

\* C3 as stated: records of a video that is not in the open project reach no
\* store when the project is opened, and every later step that succeeds (a
\* mutation, a save) leaves them in the annotations file.
C3_UnknownRecordsInert ==
    [][(project'.open /\ call'.ret) =>
        LET before == IF project.open /\ project.name = project'.name
                      THEN RecordsOf(disk[project.name].annotations) ELSE {}
            unknown == {r \in before : r.video_id \notin VideosOf(project')}
        IN  /\ \A r \in unknown : r.video_id \notin DOMAIN models'
            /\ unknown \subseteq RecordsOf(disk'[project'.name].annotations)]_vars

\* C5 as stated: a save that fails has cleared no store's dirty flag; a save
\* that succeeds leaves every store's dirty flag false.
C5_DirtyClearedOnSuccessOnly ==
    [][call'.op \in SaveOps =>
        IF call'.ret
        THEN \A vid \in DOMAIN models' : ~models'[vid].dirty
        ELSE \A vid \in DOMAIN models : models'[vid].dirty = models[vid].dirty]_vars

----------------------------------------------------------------------------
(* Properties of the oracle and of clearing *)

\* the active object of the session, an absent one read as empty
ActiveObject ==
    Fields(get_object(models[current_video_id], models[current_video_id].index, obj_spin))
\* the polygons stored in store m
StoredPolygons(m) ==
    UNION {{m.ann[f][o].polygon : o \in DOMAIN m.ann[f]} : f \in DOMAIN m.ann}

\* C11: run_sam2 while the service is missing or unavailable (which includes a
\* missing cv2), or while the active object has no points and no box with w>0
\* and h>0, mutates no store (no polygon committed, an existing one unchanged,
\* dirty unchanged) and does not end the application.
C11_OracleFailureNoOp ==
    [][(/\ call'.op = "run_sam2"
        /\ \/ sam2 # "available"
           \/ ~HasModel
           \/ (ActiveObject.points = <<>> /\ ~ValidBox(ActiveObject.box)))
       => (models' = models /\ running')]_vars

\* run_sam2 found no prompt on an object that holds a committed polygon
C11_Witness ==
    /\ call.op = "run_sam2" /\ ~call.ret
    /\ sam2 = "available"
    /\ call.before # None
    /\ call.before[1].points = <<>> /\ ~ValidBox(call.before[1].box)
    /\ Len(call.before[1].polygon) >= 3
    /\ get_object(models[call.vid], models[call.vid].index, call.oid) = call.before

\* C12 as stated: when the oracle's polygon has fewer than 3 vertices run_sam2
\* changes no store, and after run_sam2 no object holds a polygon of 1 or 2
\* vertices.
C12_ShortPolygonNotCommitted ==
    [][call'.op = "run_sam2" =>
        /\ Len(call'.poly) < 3 => models' = models
        /\ \A vid \in DOMAIN models' : \A poly \in StoredPolygons(models'[vid]) :
              Len(poly) = 0 \/ Len(poly) >= 3]_vars

\* C13 as stated: clear_object(obj) always sets dirty and leaves an empty
\* ObjectAnno for obj in the entry of the cursor frame.
C13_ClearObjectAlwaysResets ==
    [][call'.op = "clear_object" =>
        /\ models'[SV].dirty
        /\ models'[SV].index \in DOMAIN models'[SV].ann
        /\ get_object(models'[SV], models'[SV].index, call'.oid) = <<ObjectAnno>>]_vars

\* C14: clear_mask_for_current sets the polygon of the active object of the
\* cursor frame to None, keeps its points, labels, box and class (an absent
\* object read as empty), and changes no other object, frame, store or cursor.
C14_ClearMaskOnlyPolygon ==
    [][(call'.op = "clear_mask_for_current" /\ HasModel) =>
        LET v == current_video_id
            m == models[v]
            n == models'[v]
        IN  /\ get_object(n, m.index, obj_spin) = <<[ActiveObject EXCEPT !.polygon = None]>>
            /\ n.index = m.index /\ n.frames = m.frames
            /\ DOMAIN n.ann \ {m.index} = DOMAIN m.ann \ {m.index}
            /\ \A f \in DOMAIN n.ann, o \in ObjIds :
                  (f # m.index \/ o # obj_spin) => get_object(n, f, o) = get_object(m, f, o)
            /\ DOMAIN models' = DOMAIN models
            /\ \A w \in DOMAIN models \ {v} : models'[w] = models[w]]_vars

\* the mask of an object with a box was cleared
C14_Witness ==
    /\ call.op = "clear_mask_for_current" /\ call.ret
    /\ call.before # None
    /\ Len(call.before[1].polygon) >= 3
    /\ ValidBox(call.before[1].box)
    /\ get_object(models[call.vid], models[call.vid].index, call.oid)
          = <<[call.before[1] EXCEPT !.polygon = None]>>

\* C15: a save that succeeds directly after a save that succeeded writes the
\* same annotation list, and to_records on the saved stores gives that list.
C15_IdempotentSave ==
    [][(call'.op = "save_annotations" /\ call'.ret) =>
        /\ (call.op = "save_annotations" /\ call.ret) =>
              disk'[StorePath].annotations = disk[StorePath].annotations
        /\ all_records(models', model_keys') = disk'[StorePath].annotations.records]_vars

\* a second save in a row of a store that writes two records
C15_Witness ==
    /\ call.op = "save_annotations" /\ call.ret /\ call.nums = <<1>>
    /\ Len(disk[StorePath].annotations.records) >= 2
    /\ to_records(models[SV], SV) = disk[StorePath].annotations.records

----------------------------------------------------------------------------
(* Properties of load_records on arbitrary record lists *)

WellFormed(rec) == "unparsable" \notin DOMAIN rec
\* the records of SV in the annotations file
FileRecords == Get(load_annotations(disk[StorePath].annotations), SV, <<>>)

\* C16 as stated: a record that fails to parse leaves the store as it was, so
\* the loaded store is the one the well-formed records of the list give.
C16_BadRecordSkipped ==
    call.op = "load_records" =>
        models[SV].ann = load_records(AnnotationModel(FramesOf(SV)),
                                      SelectSeq(FileRecords, WellFormed)).ann

\* C17 as stated: in every store, the points and the labels of every object
\* have the same length.
C17_PointsLabelsParallel ==
    \A vid \in DOMAIN models : \A f \in DOMAIN models[vid].ann :
        \A o \in DOMAIN models[vid].ann[f] :
            Len(models[vid].ann[f][o].points) = Len(models[vid].ann[f][o].labels)

----------------------------------------------------------------------------
(* Properties of the cursor and of the project descriptor *)

Nearest(i, n) == IF i < 0 THEN 0 ELSE IF i > n - 1 THEN n - 1 ELSE i

C19_ClassesNeverEmpty ==
    /\ [](project.open => project.classes # <<>>)
    /\ [][call'.op = "action_new_project" =>
            project'.classes = <<[name |-> "default", color |-> "#00FF00"],
                                 [name |-> "object", color |-> "#FFD700"]>>]_vars
    /\ [][call'.op = "action_open_project" =>
            LET loaded == Get(disk[project'.name], "classes", <<>>)
            IN  IF loaded = <<>>
                THEN project'.classes = <<[name |-> "default", color |-> "#00FF00"],
                                          [name |-> "object", color |-> "#FFD700"]>>
                ELSE /\ Len(project'.classes) = Len(loaded)
                     /\ \A i \in 1..Len(loaded) :
                           \A k \in DOMAIN loaded[i] : project'.classes[i][k] = loaded[i][k]]_vars

\* a project opened from a descriptor that has no classes entry
C19_Witness ==
    /\ call.op = "action_open_project" /\ project.open
    /\ "classes" \notin DOMAIN disk[project.name]
    /\ Len(project.classes) = 2

\* C20 as stated: no two videos of the open project have the same id.
C20_VideoIdsUnique ==
    project.open =>
        \A i, j \in 1..Len(project.videos) :
            i # j => project.videos[i] # project.videos[j]

\* the (frame, object) pairs of store m, and whether one comes before another
Entries(m) == UNION {{<<f, o>> : o \in DOMAIN m.ann[f]} : f \in DOMAIN m.ann}
Before(e1, e2) == e1[1] < e2[1] \/ (e1[1] = e2[1] /\ e1[2] < e2[2])

\* C23: the list to_records gives for a store has its records in ascending
\* order of frame index and then of object id, one record for each object that
\* has content and none for any other; a record carries a box exactly when the
\* object's box has w > 0 and h > 0 and a polygon exactly when the object's
\* polygon has at least 3 vertices.
C23_RecordsOfContent ==
    \A vid \in DOMAIN models :
        LET m == models[vid]
            recs == to_records(m, vid)
            at(k) == <<recs[k].frame_idx, recs[k].obj_id>>
        IN  /\ \A k \in 1..Len(recs) : \A l \in 1..Len(recs) : k < l => Before(at(k), at(l))
            /\ {at(k) : k \in 1..Len(recs)} = {e \in Entries(m) : Content(m.ann[e[1]][e[2]])}
            /\ \A k \in 1..Len(recs) :
                  LET o == m.ann[recs[k].frame_idx][recs[k].obj_id]
                  IN  /\ recs[k].video_id = vid
                      /\ ("box" \in DOMAIN recs[k]) = ValidBox(o.box)
                      /\ ("box" \in DOMAIN recs[k]) => recs[k].box = o.box
                      /\ ("polygon" \in DOMAIN recs[k]) = (Len(o.polygon) >= 3)
                      /\ ("polygon" \in DOMAIN recs[k]) => recs[k].polygon = o.polygon
                      /\ Len(recs[k].points) = Len(o.points)

\* a successful save wrote two records, one of them for an object whose box
\* is set but has no area
C23_Witness ==
    /\ call.op = "save_annotations" /\ call.ret
    /\ disk[StorePath].annotations.records = to_records(models[SV], SV)
    /\ Len(disk[StorePath].annotations.records) = 2
    /\ \E e \in Entries(models[SV]) :
          LET o == models[SV].ann[e[1]][e[2]]
          IN  o.box # None /\ ~ValidBox(o.box) /\ Content(o)

EditOps ==
    {"MainWindow.add_point", "MainWindow.remove_point", "MainWindow.set_box",
     "clear_mask_for_current", "run_sam2"}
AllClean == \A vid \in DOMAIN models : ~models[vid].dirty

\* C24: every step of add_point, remove_point, set_box, clear_mask_for_current
\* or run_sam2 that changes a store leaves the autosave timer active; a write
\* made by the timer happens only with the timer active and leaves it inactive
\* (single shot: one write for one burst of edits), it writes the records of
\* the stores, and when it succeeds every store's dirty flag is false; an
\* active timer always leads to its timeout, unless the application ends first.
C24_DebouncedAutosave ==
    /\ [][(nops' # nops /\ call'.op \in EditOps /\ models' # models) => autosave_timer']_vars
    /\ [][nops' = nops =>
            /\ call'.op = "autosave_timeout"
            /\ autosave_timer /\ ~autosave_timer'
            /\ call'.ret =>
                  /\ AllClean'
                  /\ disk'[project.name].annotations = File(all_records(models, model_keys))]_vars
    /\ [](AllClean \/ ~running \/ autosave_timer)
    /\ (autosave_timer /\ running) ~> (~autosave_timer \/ ~running)

\* the timer wrote the point added before it
C24_Witness ==
    /\ call.op = "autosave_timeout" /\ call.ret
    /\ ~autosave_timer
    /\ \E k \in 1..Len(disk[project.name].annotations.records) :
          disk[project.name].annotations.records[k].points # <<>>

\* C25: a step of add_point or set_box of the main window (a prompt edit made
\* before the oracle is invoked) leaves the stores' committed annotations as
\* they were, so the records a save would write after the step are the records
\* it would have written before it.
C25_PromptsTransient ==
    [][(nops' # nops /\ call'.op \in {"MainWindow.add_point", "MainWindow.set_box"})
          => /\ [vid \in DOMAIN models' |-> models'[vid].ann]
                    = [vid \in DOMAIN models |-> models[vid].ann]
             /\ all_records(models', model_keys') = all_records(models, model_keys)]_vars

\* C26: when run_sam2 commits a polygon, the active object of the cursor frame
\* holds the oracle's polygon with the points, labels, box and class it had
\* before, and no other object, frame, store or cursor changes.
C26_CommitOnlyPolygon ==
    [][(call'.op = "run_sam2" /\ call'.ret) =>
        LET v == current_video_id
            m == models[v]
            n == models'[v]
        IN  /\ HasModel
            /\ get_object(n, m.index, obj_spin) = <<[ActiveObject EXCEPT !.polygon = call'.poly]>>
            /\ n.index = m.index /\ n.frames = m.frames
            /\ DOMAIN n.ann = DOMAIN m.ann
            /\ \A f \in DOMAIN n.ann, o \in ObjIds :
                  (f # m.index \/ o # obj_spin) => get_object(n, f, o) = get_object(m, f, o)
            /\ DOMAIN models' = DOMAIN models
            /\ \A w \in DOMAIN models \ {v} : models'[w] = models[w]]_vars

\* a polygon was committed on an object that has a point and a box
C26_Witness ==
    /\ call.op = "run_sam2" /\ call.ret
    /\ Len(call.poly) >= 3
    /\ call.before # None
    /\ call.before[1].points # <<>> /\ ValidBox(call.before[1].box)
    /\ get_object(models[call.vid], models[call.vid].index, call.oid)
          = <<[call.before[1] EXCEPT !.polygon = call.poly]>>

MutationOps == {"add_point", "remove_point", "set_box", "set_polygon", "set_class",
                "clear_object"}

\* C27: a call of add_point, remove_point, set_box, set_polygon, set_class or
\* clear_object with object id o keeps the cursor and the frame list, keeps
\* every frame other than the cursor frame as it was (present or absent, with
\* all its objects), and keeps every object other than o of the cursor frame;
\* set_index keeps the annotations and the dirty flag.
C27_MutationsLocal ==
    [][/\ call'.op \in MutationOps =>
            LET m == models[SV]
                n == models'[SV]
            IN  /\ n.index = m.index /\ n.frames = m.frames
                /\ DOMAIN n.ann \ {m.index} = DOMAIN m.ann \ {m.index}
                /\ \A f \in DOMAIN m.ann \ {m.index} : n.ann[f] = m.ann[f]
                /\ \A o \in (IF m.index \in DOMAIN n.ann THEN DOMAIN n.ann[m.index] ELSE {})
                            \cup (IF m.index \in DOMAIN m.ann THEN DOMAIN m.ann[m.index]
                                  ELSE {}) :
                      o # call'.oid => get_object(n, m.index, o) = get_object(m, m.index, o)
       /\ call'.op = "set_index" =>
            /\ models'[SV].ann = models[SV].ann
            /\ models'[SV].dirty = models[SV].dirty
            /\ models'[SV].frames = models[SV].frames]_vars

\* a point was added on frame 1 beside another object there, frame 0 holding
\* an object too
C27_Witness ==
    /\ call.op = "add_point"
    /\ models[SV].index = 1
    /\ {0, 1} \subseteq DOMAIN models[SV].ann
    /\ DOMAIN models[SV].ann[0] # {}
    /\ Cardinality(DOMAIN models[SV].ann[1]) >= 2

\* C28: when run_sam2 commits a polygon, the prompts it sent are those of the
\* object the session shows (current video, cursor frame, spin-box object), the
\* polygon is stored on that same object, and the current video, the cursor
\* and the spin-box object are the same after the step as before it.
C28_CommitToPromptedObject ==
    [][(call'.op = "run_sam2" /\ call'.ret) =>
        /\ HasModel
        /\ call'.vid = current_video_id /\ call'.oid = obj_spin
        /\ call'.before = get_object(models[current_video_id],
                                     models[current_video_id].index, obj_spin)
        /\ call'.before # None
        /\ call'.before[1].points # <<>> \/ ValidBox(call'.before[1].box)
        /\ Fields(get_object(models'[current_video_id],
                             models[current_video_id].index, obj_spin)).polygon = call'.poly
        /\ current_video_id' = current_video_id
        /\ obj_spin' = obj_spin
        /\ models'[current_video_id].index = models[current_video_id].index
        /\ \A f \in DOMAIN models'[current_video_id].ann, o \in ObjIds :
              (f # models[current_video_id].index \/ o # obj_spin) =>
                 Fields(get_object(models'[current_video_id], f, o)).polygon
                    = Fields(get_object(models[current_video_id], f, o)).polygon]_vars

\* after a move to frame 1 a polygon was committed to the object there,
\* prompted by its box
C28_Witness ==
    /\ call.op = "run_sam2" /\ call.ret
    /\ call.oid = obj_spin /\ call.vid = current_video_id
    /\ models[call.vid].index = 1
    /\ call.before # None
    /\ ValidBox(call.before[1].box)
    /\ Fields(get_object(models[call.vid], 1, call.oid)).polygon = call.poly
    /\ Len(call.poly) >= 3

\* C29: while a project is open and the application runs, the keys of the
\* stores are exactly the video ids of the project, after load_project and
\* after every import-finished event as after every other step.
C29_StoresMatchVideos ==
    (project.open /\ running) =>
        /\ DOMAIN models = VideosOf(project)
        /\ {model_keys[i] : i \in 1..Len(model_keys)} = DOMAIN models

\* an import registered a third video in a project opened with two
C29_Witness ==
    /\ call.op = "_on_import_finished" /\ call.ret
    /\ running /\ project.open
    /\ Cardinality(VideosOf(project)) = 3
    /\ Cardinality(DOMAIN models) = 3

\* C30 as stated: at most one import thread is in flight, the import action
\* being disabled from its start until its finished event; and a finished
\* event of a thread started under another project registers nothing in the
\* project that is open now.
C30_ImportsStayWithStarter ==
    /\ [](Len(imports) <= 1)
    /\ []((running /\ imports # <<>>) => ~act_import_videos)
    /\ [][call'.op = "_on_import_finished" =>
            \A k \in 1..Len(imports) :
                (imports' = RemoveAt(imports, k) /\ imports[k].root # project.name)
                    => (project'.videos = project.videos /\ DOMAIN models' = DOMAIN models)]_vars

----------------------------------------------------------------------------
(* Properties of the import thread *)

\* the videos of a batch that met no exception, in the batch's order
Extracted(videos) ==
    LET ok(v) == v.outcome = "ok"
        kept == SelectSeq(videos, ok)
    IN [k \in 1..Len(kept) |-> [source_path |-> kept[k].name]]

\* the places of the signals of kind sig about video name
SignalsOf(sig, name) ==
    {k \in 1..Len(thread.signals) :
        thread.signals[k].sig = sig /\ thread.signals[k].name = name}

Finishes == {k \in 1..Len(thread.signals) : thread.signals[k].sig = "finished"}

\* the closing progress signal of video i comes before that of video j
InOrder(i, j) ==
    \A k \in SignalsOf("progress", i), l \in SignalsOf("progress", j) :
        (thread.signals[k].text # "Extracting" /\ thread.signals[l].text # "Extracting")
            => k < l

ImportCompleted ==
    /\ thread.idx = Len(thread.videos)
    /\ \A i \in 1..Len(thread.videos) :
          /\ Cardinality(SignalsOf("error", i)) =
                 (IF thread.videos[i].outcome = "ok" THEN 0 ELSE 1)
          /\ \E k \in SignalsOf("progress", i) : thread.signals[k].text # "Extracting"
          /\ \A j \in 1..Len(thread.videos) : i < j => InOrder(i, j)
    /\ Finishes = {Len(thread.signals)}
    /\ thread.signals[Len(thread.signals)].results = Extracted(thread.videos)

\* C21: every run of the import thread on a batch of N videos reaches the end
\* of run(), and there all N videos were processed in order, each failed video
\* has exactly one error signal and each other video none, and finished was
\* emitted exactly once, as the last signal, with the extracted videos in the
\* batch's order.
C21_BestEffortExtraction ==
    /\ [](thread.pc = "done" => ImportCompleted)
    /\ [](thread.pc # "done" => Finishes = {})
    /\ <>(thread.pc = "done")

\* the same for the runs whose frames root could be made
BestEffortAfterMkdir ==
    /\ [](thread.pc = "done" => ImportCompleted)
    /\ [](thread.pc # "done" => Finishes = {})
    /\ (thread.mkdir = "ok") => <>(thread.pc = "done")

FailedItemPassed ==
    /\ thread.pc = "done"
    /\ Len(thread.videos) = MaxVideos
    /\ thread.videos[1].outcome = "extract_raises"
    /\ thread.videos[2].outcome = "ok"
    /\ thread.videos[3].outcome = "unique_dir_raises"

----------------------------------------------------------------------------
(* Properties of the frame list *)

Range(list) == {list[k] : k \in 1..Len(list)}

Ascending(frames) ==
    \A i, j \in 1..Len(frames) : i < j => _numeric_key(frames[i]) <= _numeric_key(frames[j])

\* C22: the frame list of a store holds the image files of the directory in
\* ascending order of the numeric key of their stems, and it is the same list
\* for every order in which the directory lists the same set of file names.
C22_FrameOrderDeterministic ==
    SV \in DOMAIN models =>
        /\ Range(models[SV].frames) = {p \in Range(listing) : p.suffix \in IMG_EXTS}
        /\ Len(models[SV].frames) = Cardinality(Range(models[SV].frames))
        /\ Ascending(models[SV].frames)
        /\ \A other \in Listings(Range(listing)) : Frames(other) = models[SV].frames

\* the numeric part: the image files in ascending key order, and stems 2, 10, 1
\* listed in any order give 1, 2, 10
NumericOrder ==
    SV \in DOMAIN models =>
        /\ Range(models[SV].frames) = {p \in Range(listing) : p.suffix \in IMG_EXTS}
        /\ Ascending(models[SV].frames)
        /\ Range(listing) = {[stem |-> st, suffix |-> ".jpg"] :
                                st \in {<<"2">>, <<"1", "0">>, <<"1">>}}
              => [k \in 1..3 |-> models[SV].frames[k].stem] = <<<<"1">>, <<"2">>, <<"1", "0">>>>

KeysOfStems ==
    /\ _numeric_key([stem |-> <<"1", "0">>]) = 10
    /\ _numeric_key([stem |-> <<"0", "1">>]) = 1
    /\ _numeric_key([stem |-> <<"a", "1", "b", "2">>]) = 2
    /\ _numeric_key([stem |-> <<"a">>]) = 0

====
